---- MODULE Spec2Model ----
(***************************************************************************)
(* A model of the music visualizer plugin (src/src/plug.c): the sample     *)
(* ring buffer shared between the audio callback (process_audio) and the   *)
(* frame loop (plug_update), the analysis pass of update_visualizer        *)
(* (window, FFT, bucketizer, envelope smoother) and the playlist handlers  *)
(* that attach, detach and reset it.                                       *)
(*                                                                         *)
(* Numbers.  The C code computes in float.  Here every real quantity is a  *)
(* fixed-point integer with FX units per 1.0 (1.5f is 1500), products and  *)
(* quotients truncate toward zero, and times are in units of 1/FX second.  *)
(* Frequencies and sample rates are whole Hz.                              *)
(***************************************************************************)
EXTENDS Integers, Sequences, FiniteSets, TLC

(***************************************************************************)
(* Bounds of the model.                                                    *)
(***************************************************************************)
\* N is 1 << 13 in the code (plug.c:31); the model keeps it a power of two.
LogN == 2
N == 2 ^ LogN
\* BARS is 72 in the code (plug.c:32).
BARS == 2
\* The playlist holds at most MaxTracks tracks.
MaxTracks == 2
\* The audio device delivers at most N + ExtraSamples samples in a behaviour.
ExtraSamples == 1
MaxSamples == N + ExtraSamples
\* One callback carries 1 .. N + 1 frames (a batch may be longer than N).
MaxBatch == N + 1
\* plug_update runs at most MaxFrames times.
MaxFrames == 2
\* The smoother on its own runs for at most SmoothFrames frames.
SmoothFrames == 4
TfMax == 8                 \* the largest size the transform is called with

\* Fixed-point scale: FX units per 1.0.
FX == 10 * 100

(***************************************************************************)
(* Program constants.                                                      *)
(***************************************************************************)
PI == 3142                 \* #define PI 3.14159265358979323846f
freq_min == 20             \* float freq_min = 20.0f
bass_bands == 8            \* int bass_bands = 8
max_amp_floor == 1         \* float max_amp = 1e-6f (smallest positive value)
target_max == 1500         \* if (target > 1.5f) target = 1.5f
bars_max == 1500           \* if (plug->bars[i] > 1.5f) plug->bars[i] = 1.5f
up_base == 20000           \* 20.0f + bass_history * 10.0f
up_gain == 10
down_base == 4500          \* 4.5f + bass_history * 2.0f
down_gain == 2
overall_default == 500     \* plug->overall_level = 0.5f
smear_speed == 3000        \* float smear_speed = 3.0f
smear_cap == 1200          \* if (intensity > 1.2f) intensity = 1.2f
bass_gain == 3500          \* bass_boost = 1.0f + bass_factor * 3.5f

(***************************************************************************)
(* Fixed-point arithmetic.                                                 *)
(***************************************************************************)
Abs(x) == IF x < 0 THEN -x ELSE x

\* a / b for integers, truncating toward zero as a C conversion does.
TruncDiv(a, b) == IF a >= 0 THEN a \div b ELSE -((-a) \div b)

\* The product of two fixed-point numbers.
MulFx(a, b) == TruncDiv(a * b, FX)

\* The quotient of two fixed-point numbers, b > 0.
DivFx(a, b) == TruncDiv(a * FX, b)

\* The largest x in lo..hi with x^b <= v (lo^b <= v).
RECURSIVE IRootIn(_, _, _, _)
IRootIn(b, v, lo, hi) ==
  IF lo >= hi THEN lo
  ELSE LET mid == (lo + hi + 1) \div 2
       IN IF mid ^ b <= v THEN IRootIn(b, v, mid, hi)
                          ELSE IRootIn(b, v, lo, mid - 1)

\* floor of the b-th root of v, for 0 <= v < 2^31 and b in 1..3.
IRoot(b, v) ==
  IF b = 1 THEN v
  ELSE IRootIn(b, v, 0, IF b = 2 THEN 46340 ELSE 1290)

\* sqrtf on fixed-point numbers.
SqrtFx(x) == IRoot(2, x * FX)

\* cos of an angle 0 <= x <= PI/2 given in fixed point: its Taylor polynomial.
CosSmall(x) ==
  LET x2 == MulFx(x, x)
      x4 == MulFx(x2, x2)
      x6 == MulFx(x4, x2)
      x8 == MulFx(x4, x4)
  IN FX - x2 \div 2 + x4 \div 24 - x6 \div 720 + x8 \div 40320

\* cos(2*PI*p/q) in fixed point, q > 0; exact at the quarter turns.
CosTurn(p, q) ==
  LET r == p % q                                    \* the turn, r/q in [0, 1)
      h == IF 2 * r > q THEN q - r ELSE r           \* cos(2*PI*(1 - t)) = cos(2*PI*t)
      neg == 4 * h > q                              \* cos(PI - x) = -cos(x)
      a == IF neg THEN q - 2 * h ELSE 2 * h         \* the angle is PI * a / q
  IN IF a = 0 THEN (IF neg THEN -FX ELSE FX)
     ELSE IF 2 * a = q THEN 0
     ELSE LET c == CosSmall((PI * a) \div q) IN IF neg THEN -c ELSE c

\* sin(2*PI*p/q) = cos(2*PI*(p/q - 1/4)).
SinTurn(p, q) == CosTurn(4 * p - q, 4 * q)

(***************************************************************************)
(* Complex numbers are pairs <<re, im>> of fixed-point numbers.            *)
(***************************************************************************)
CZero == <<0, 0>>
CAdd(a, b) == <<a[1] + b[1], a[2] + b[2]>>
CSub(a, b) == <<a[1] - b[1], a[2] - b[2]>>
CMul(a, b) == <<MulFx(a[1], b[1]) - MulFx(a[2], b[2]),
                MulFx(a[1], b[2]) + MulFx(a[2], b[1])>>

\* cexpf(-2.0f * I * PI * t) with t = k / n.
Twiddle(k, n) == <<CosTurn(k, n), -SinTurn(k, n)>>

\* A butterfly loop that stores only out[k], not out[k + n / 2].
RECURSIVE butterflyLowerOnly(_, _, _, _)
butterflyLowerOnly(out, ooff, n, k) ==
  IF k >= n \div 2 THEN out
  ELSE LET v == CMul(Twiddle(k, n), out[ooff + k + n \div 2])
           e == out[ooff + k]
       IN butterflyLowerOnly([out EXCEPT ![ooff + k] = CAdd(e, v)],
                             ooff, n, k + 1)

\* The butterfly loop of compute_fft, from index k on.
RECURSIVE butterfly(_, _, _, _)
butterfly(out, ooff, n, k) ==
  IF k >= n \div 2 THEN out
  ELSE LET v == CMul(Twiddle(k, n), out[ooff + k + n \div 2])
           e == out[ooff + k]
       IN butterfly([out EXCEPT ![ooff + k] = CAdd(e, v),
                                ![ooff + k + n \div 2] = CSub(e, v)],
                    ooff, n, k + 1)

\* compute_fft(in + ioff, stride, out + ooff, n): the output array afterwards.
RECURSIVE compute_fft(_, _, _, _, _, _)
compute_fft(in, ioff, stride, out, ooff, n) ==
  IF n = 1 THEN [out EXCEPT ![ooff] = <<in[ioff], 0>>]
  ELSE LET o1 == compute_fft(in, ioff, stride * 2, out, ooff, n \div 2)
           o2 == compute_fft(in, ioff + stride, stride * 2, o1,
                             ooff + n \div 2, n \div 2)
       IN butterfly(o2, ooff, n, 0)

\* An amplitude that adds the two parts instead of taking the larger.
AmplitudeSum(z) == Abs(z[1]) + Abs(z[2])

\* get_amplitude: max(|re|, |im|).
get_amplitude(z) ==
  LET a == Abs(z[1])
      b == Abs(z[2])
  IN IF a > b THEN a ELSE b

\* plug->window[i] = 0.5f * (1.0f - cosf(2.0f * PI * i / (N - 1))).
Hann(i) == (FX - CosTurn(i, N - 1)) \div 2

(***************************************************************************)
(* State.                                                                  *)
(***************************************************************************)
VARIABLES
  \* Fields of Plug (plug.c:84-132).
  tracks,          \* the playlist: a sequence of streams [channels, sampleRate]
  current_track,   \* int current_track
  error,           \* bool error
  has_music,       \* bool has_music
  paused,          \* bool paused
  sample_rate,     \* unsigned sample_rate
  samples,         \* float samples[N]
  sample_write,    \* atomic_uint sample_write
  window,          \* float window[N]
  window_ready,    \* bool window_ready
  spectrum,        \* float complex spectrum[N]
  smear,           \* float smear[BARS]
  bars,            \* float bars[BARS]
  bass_history,    \* float bass_history
  overall_level,   \* float overall_level
  \* The audio library: how many times process_audio is attached to each
  \* track's stream (AttachAudioStreamProcessor / DetachAudioStreamProcessor).
  attached,
  \* The audio thread, inside process_audio.
  paPc,            \* "idle", "write", "store"
  paStream,        \* the track whose stream is calling
  paFrames,        \* unsigned int frames
  paT,             \* Track *t, an index into tracks (0 is NULL)
  paCh,            \* unsigned ch
  paW,             \* unsigned w
  paI,             \* unsigned i
  paBase,          \* the number of samples delivered before this buffer
  paSeen,          \* <<tracks.count, current_track>> as current_track() read them
  \* The frame thread, inside plug_update.
  cpc,             \* the handler or step about to run
  cret,            \* where switch_track returns to
  stIndex,         \* switch_track's argument
  frame,           \* frames started
  dt,              \* GetFrameTime() of this frame
  uvW,             \* update_visualizer's w
  uvI,             \* update_visualizer's i in the copy loop
  tmp,             \* float tmp[N]
  reloading,       \* between plug_pre_reload and plug_post_reload
  \* History, read by no guard and written to no program variable.
  serial,          \* samples written by process_audio so far
  resetSerial,     \* serial at the last reset of the ring buffer
  snap,            \* the samples the copy loop read, before windowing
  uvQuiet,         \* no process_audio call was in progress since the cursor load
  uvLoads,         \* cursor loads of the current update_visualizer pass
  loadSerial,      \* serial when the cursor was loaded
  loadOpen,        \* slots the call in progress at the load had already written
  lastOp,          \* "switch_track" right after switch_track returned, else "-"
  \* Calls of the pure functions on their own, outside plug_update: the
  \* arguments, the status and the result of each.
  tfCall,          \* a call of compute_fft (plug.c) or fft (fft.c)
  ampCall,         \* a call of get_amplitude (plug.c) and amp (music.c)
  bkCall           \* a run of the bucketizer loop of update_visualizer

listVars == <<tracks, current_track, error, has_music, paused, sample_rate>>
ringVars == <<samples, sample_write>>
anaVars == <<window, window_ready, spectrum, smear, bars, bass_history,
             overall_level>>
paLocals == <<paStream, paFrames, paT, paCh, paW, paI, paBase, paSeen>>
callVars == <<cret, stIndex>>
frameVars == <<frame, dt, reloading>>
uvLocals == <<uvW, uvI, tmp>>
uvHist == <<snap, uvQuiet, uvLoads, loadSerial, loadOpen>>
paVars == <<paPc, paLocals>>
cVars == <<cpc, callVars, frameVars, uvLocals>>
tfVars == <<tfCall, ampCall, bkCall>>
vars == <<listVars, ringVars, anaVars, attached, paVars, cVars, serial,
          resetSerial, uvHist, lastOp, tfVars>>

Slots == 0 .. N - 1
Bands == 0 .. BARS - 1
TrackIds == 1 .. MaxTracks

\* The streams LoadMusicStream can return: channels and sample rate.
Streams == {[channels |-> 2, sampleRate |-> 48000]}

\* The streams it can return where the audio thread is left out: also a mono
\* stream of another rate, and one whose header declares a rate of 30 Hz,
\* which IsMusicValid accepts (it asks for sampleRate > 0).
AllStreams ==
  Streams \cup {[channels |-> 1, sampleRate |-> 44100],
                [channels |-> 1, sampleRate |-> 30]}

\* Frame durations GetFrameTime() returns, in 1/FX second: a 60 fps frame.
FrameTimes == {16}

\* Frame durations and targets the smoother is driven with on its own: a
\* frame of no duration, a 60 fps frame, and frames long enough that
\* smoothness * dt reaches and passes 1.
SmoothTimes == {0, 16, 50, 100, 1000}
SmoothTargets == {0, 500, 1000, 1500}

ZeroSamples == [i \in Slots |-> 0]
ZeroBands == [i \in Bands |-> 0]
ZeroSpectrum == [i \in Slots |-> CZero]

\* The s-th sample the device delivers (s >= 1), channel 0: distinct, increasing.
SampleOf(s) == 100 * s

\* bufferData[j] of a callback on a stream of sch channels, after base samples.
Fs(base, sch, j) ==
  IF j % sch = 0 THEN SampleOf(base + j \div sch + 1)
                 ELSE -SampleOf(base + j \div sch + 1)

(***************************************************************************)
(* plug_init: the state after construction.                                *)
(***************************************************************************)
plug_init ==
  /\ tracks = <<>>
  /\ current_track = 0
  /\ error = FALSE
  /\ has_music = FALSE
  /\ paused = FALSE
  /\ sample_rate = 0
  /\ samples = ZeroSamples
  /\ sample_write = 0
  /\ window = ZeroSamples
  /\ window_ready = FALSE
  /\ spectrum = ZeroSpectrum
  /\ smear = ZeroBands
  /\ bars = ZeroBands
  /\ bass_history = 0
  /\ overall_level = overall_default

InitIdle ==
  /\ plug_init
  /\ attached = [t \in TrackIds |-> 0]
  /\ paPc = "idle" /\ paStream = 0 /\ paFrames = 0 /\ paT = 0 /\ paCh = 0
  /\ paW = 0 /\ paI = 0 /\ paBase = 0 /\ paSeen = <<0, 0>>
  /\ cpc = "idle" /\ cret = "idle" /\ stIndex = 0 /\ frame = 0 /\ dt = 0
  /\ uvW = 0 /\ uvI = 0 /\ tmp = ZeroSamples /\ reloading = FALSE
  /\ serial = 0 /\ resetSerial = 0 /\ snap = ZeroSamples /\ uvQuiet = FALSE
  /\ uvLoads = 0 /\ loadSerial = 0 /\ loadOpen = 0
  /\ lastOp = "-"

\* No pure function is called on its own.
NoCall == [status |-> "idle"]

Init == InitIdle /\ tfCall = NoCall /\ ampCall = NoCall /\ bkCall = NoCall

(***************************************************************************)
(* current_track(): the index (1-based) of the current track, 0 for NULL.  *)
(* plug->current_track is 0-based as in the code.                          *)
(***************************************************************************)
CurrentTrack(cur, count) == IF 0 <= cur /\ cur < count THEN cur + 1 ELSE 0

(***************************************************************************)
(* process_audio (plug.c:256-276), one step per shared-memory access.  The *)
(* audio library calls it, under its lock, for a stream it is attached to. *)
(***************************************************************************)
\* The callback is entered with a buffer of f frames: if (!plug) return;
\* Track *t = current_track(); if (!t) return; ch = t->music.stream.channels;
\* unsigned w = atomic_load_explicit(&plug->sample_write, relaxed).
PaEnter ==
  /\ paPc = "idle"
  /\ \E s \in TrackIds, f \in 1 .. MaxBatch :
       /\ attached[s] > 0
       /\ serial + f <= MaxSamples
       /\ LET t == CurrentTrack(current_track, Len(tracks))
          IN IF t = 0
             THEN UNCHANGED <<paPc, paLocals>>
             ELSE /\ paPc' = "write"
                  /\ paStream' = s
                  /\ paFrames' = f
                  /\ paBase' = serial
                  /\ paT' = t
                  /\ paSeen' = <<Len(tracks), current_track>>
                  /\ paCh' = tracks[t].channels
                  /\ paW' = sample_write
                  /\ paI' = 0
  /\ uvQuiet' = FALSE
  /\ lastOp' = "-"
  /\ UNCHANGED tfVars
  /\ UNCHANGED <<listVars, ringVars, anaVars, attached, cVars, serial,
                 resetSerial, snap, uvLoads, loadSerial, loadOpen>>

\* The loop with the cursor stored after every sample.
PaWritePublish ==
  /\ paPc = "write"
  /\ LET v == Fs(paBase, tracks[paStream].channels, paI * paCh)
     IN /\ samples' = [samples EXCEPT ![paW] = v]
  /\ paW' = (paW + 1) % N
  /\ sample_write' = (paW + 1) % N
  /\ paI' = paI + 1
  /\ paPc' = IF paI + 1 < paFrames THEN "write" ELSE "store"
  /\ serial' = serial + 1
  /\ lastOp' = "-"
  /\ UNCHANGED tfVars
  /\ UNCHANGED <<listVars, anaVars, attached, paStream, paFrames, paT, paCh,
                 paBase, paSeen, cVars, resetSerial, uvHist>>

\* One turn of the loop: plug->samples[w] = fs[i * ch]; w = (w + 1) % N.
PaWrite ==
  /\ paPc = "write"
  /\ LET v == Fs(paBase, tracks[paStream].channels, paI * paCh)
     IN /\ samples' = [samples EXCEPT ![paW] = v]
  /\ paW' = (paW + 1) % N
  /\ paI' = paI + 1
  /\ paPc' = IF paI + 1 < paFrames THEN "write" ELSE "store"
  /\ serial' = serial + 1
  /\ lastOp' = "-"
  /\ UNCHANGED tfVars
  /\ UNCHANGED <<listVars, sample_write, anaVars, attached, paStream, paFrames,
                 paT, paCh, paBase, paSeen, cVars, resetSerial, uvHist>>

\* The return without the store of the cursor.
PaStoreStale ==
  /\ paPc = "store"
  /\ paPc' = "idle"
  /\ paStream' = 0 /\ paFrames' = 0 /\ paT' = 0 /\ paCh' = 0
  /\ paW' = 0 /\ paI' = 0 /\ paBase' = 0 /\ paSeen' = <<0, 0>>
  /\ lastOp' = "-"
  /\ UNCHANGED tfVars
  /\ UNCHANGED <<listVars, ringVars, anaVars, attached, cVars, serial,
                 resetSerial, uvHist>>

\* atomic_store_explicit(&plug->sample_write, w, release); return: the locals
\* die.
PaStore ==
  /\ paPc = "store"
  /\ sample_write' = paW
  /\ paPc' = "idle"
  /\ paStream' = 0 /\ paFrames' = 0 /\ paT' = 0 /\ paCh' = 0
  /\ paW' = 0 /\ paI' = 0 /\ paBase' = 0 /\ paSeen' = <<0, 0>>
  /\ lastOp' = "-"
  /\ UNCHANGED tfVars
  /\ UNCHANGED <<listVars, samples, anaVars, attached, cVars, serial,
                 resetSerial, uvHist>>

process_audio == PaEnter \/ PaWrite \/ PaStore

(***************************************************************************)
(* The analysis pass of update_visualizer (plug.c:652-728) on the windowed *)
(* copy tmp: transform, bucketizer, envelope smoother.                     *)
(***************************************************************************)
\* float max_amp = 1e-6f; then the largest amplitude of the first N/2 bins.
RECURSIVE MaxAmpNoFloor(_, _, _)
RECURSIVE MaxAmp(_, _, _)
MaxAmpNoFloor(spec, i, acc) ==
  IF i >= N \div 2 THEN 0
  ELSE LET a == get_amplitude(spec[i])
           rest == MaxAmpNoFloor(spec, i + 1, acc)
       IN IF a > rest THEN a ELSE rest

MaxAmp(spec, i, acc) ==
  IF i >= N \div 2 THEN acc
  ELSE LET a == get_amplitude(spec[i])
       IN MaxAmp(spec, i + 1, IF a > acc THEN a ELSE acc)

\* freq_max / freq_min in tenths, with freq_max = sample_rate * 0.5f.
FreqRatio10(sr) == (sr * 5) \div freq_min

\* powf(freq_max / freq_min, i / BARS) in tenths.
PowBand10(sr, i) ==
  IF i = 0 THEN 10
  ELSE IF i = BARS THEN FreqRatio10(sr)
  ELSE IRoot(BARS, (FreqRatio10(sr) ^ i) * (10 ^ (BARS - i)))

\* (size_t)(f * N / sample_rate) with f = freq_min * powf(..., i / BARS).
BinOf(sr, i) == (freq_min * PowBand10(sr, i) * N) \div (10 * sr)

\* size_t k0, k1 of band i; if (k1 <= k0) k1 = k0 + 1.
BandK0(sr, i) == BinOf(sr, i)
BandK1(sr, i) ==
  LET k0 == BinOf(sr, i)
      k1 == BinOf(sr, i + 1)
  IN IF k1 <= k0 THEN k0 + 1 ELSE k1

\* for (k = k0; k < k1 && k < N / 2; k++) band_max = max(band_max, amplitude).
RECURSIVE BandMax(_, _, _, _)
BandMax(spec, k, k1, acc) ==
  IF ~(k < k1 /\ k < N \div 2) THEN acc
  ELSE LET a == get_amplitude(spec[k])
       IN BandMax(spec, k + 1, k1, IF a > acc THEN a ELSE acc)

\* bass_boost of band i.
BassBoost(i) ==
  IF i < bass_bands
  THEN FX + MulFx(FX - (i * FX) \div bass_bands, bass_gain)
  ELSE FX

\* plug->overall_level = 0.95f * plug->overall_level + 0.05f * normalized.
NextOverall(ol, normalized) == MulFx(950, ol) + MulFx(50, normalized)

\* target of a band: boost, sqrtf, loudness scaling, ceiling.
TargetOf(normalized, i, ol) ==
  LET t1 == SqrtFx(MulFx(normalized, BassBoost(i)))
      t2 == MulFx(t1, FX + MulFx(ol, 500))
  IN IF t2 > target_max THEN target_max ELSE t2

\* plug->bass_history = 0.9f * plug->bass_history + 0.1f * target.
NextBass(bh, target) == MulFx(900, bh) + MulFx(100, target)

\* An attack rate no faster than the decay rate.
SmoothUpAsDown(bh) == down_base + bh * down_gain

\* smoothness_up, smoothness_down.
SmoothUp(bh) == up_base + bh * up_gain
SmoothDown(bh) == down_base + bh * down_gain

\* plug->bars[i] += (target - plug->bars[i]) * smoothness * dt.
SmoothStep(bar, target, bh, d) ==
  IF target > bar
  THEN bar + MulFx(MulFx(target - bar, SmoothUp(bh)), d)
  ELSE bar + MulFx(MulFx(target - bar, SmoothDown(bh)), d)

\* The smoothed value as it is, without the two clamps.
NoClamp(b) == b

\* if (bars[i] < 0.0f) bars[i] = 0.0f; if (bars[i] > 1.5f) bars[i] = 1.5f.
ClampBar(b) == IF b < 0 THEN 0 ELSE IF b > bars_max THEN bars_max ELSE b

\* The smoother of one band for one frame.
SmoothBar(bar, target, bh, d) == ClampBar(SmoothStep(bar, target, bh, d))

\* The loop over the bands from band i on; st holds bars, bass_history and
\* overall_level as the loop has left them.
RECURSIVE BandLoop(_, _, _, _, _, _)
BandLoop(spec, maxAmp, sr, d, i, st) ==
  IF i >= BARS THEN st
  ELSE LET bandMax == BandMax(spec, BandK0(sr, i), BandK1(sr, i), 0)
           normalized == DivFx(bandMax, maxAmp)
           ol == NextOverall(st.overall_level, normalized)
           target == TargetOf(normalized, i, ol)
           bh == IF i = 0 THEN NextBass(st.bass_history, target)
                          ELSE st.bass_history
       IN BandLoop(spec, maxAmp, sr, d, i + 1,
                   [bars |-> [st.bars EXCEPT
                                ![i] = SmoothBar(st.bars[i], target, bh, d)],
                    bass_history |-> bh,
                    overall_level |-> ol])

\* Steps 3 to 5 of update_visualizer: what spectrum, bars, bass_history and
\* overall_level become.
Analyze(in, spec0, sr, d, bars0, bh0, ol0) ==
  LET spec == compute_fft(in, 0, 1, spec0, 0, N)
      maxAmp == MaxAmp(spec, 0, max_amp_floor)
      st == BandLoop(spec, maxAmp, sr, d, 0,
                     [bars |-> bars0, bass_history |-> bh0,
                      overall_level |-> ol0])
  IN [spectrum |-> spec, bars |-> st.bars, bass_history |-> st.bass_history,
      overall_level |-> st.overall_level]

(***************************************************************************)
(* The audio library, as far as the plugin uses it.                        *)
(***************************************************************************)
\* What LoadMusicStream returns for a file that is no music.
InvalidStream == [channels |-> 0, sampleRate |-> 0]
IsMusicValid(music) == music.channels > 0 /\ music.sampleRate > 0

\* What LoadMusicStream can return while the playlist holds count tracks.
LoadableFrom(S, count) ==
  {InvalidStream} \cup (IF count < MaxTracks THEN S ELSE {})
Loadable(count) == LoadableFrom(Streams, count)

\* AttachAudioStreamProcessor / DetachAudioStreamProcessor on track t's
\* stream.  Both take the lock the audio thread holds while it runs the
\* processors, so neither runs while a callback is in progress.
AudioLockFree == paPc = "idle"
Attach(att, t) == [att EXCEPT ![t] = @ + 1]
Detach(att, t) == [att EXCEPT ![t] = IF @ > 0 THEN @ - 1 ELSE 0]

(***************************************************************************)
(* switch_track(index) (plug.c:343-382).  The caller sets stIndex and the  *)
(* place to return to.                                                     *)
(***************************************************************************)
CallSwitchTrack(index, ret) ==
  /\ cpc' = "stDetach"
  /\ stIndex' = index
  /\ cret' = ret

\* switch_track that leaves process_audio attached to the previous track.
StDetachNone ==
  /\ cpc = "stDetach"
  /\ IF Len(tracks) = 0
     THEN /\ cpc' = cret
          /\ cret' = "idle" /\ stIndex' = 0
     ELSE /\ cpc' = "stSelect"
          /\ UNCHANGED callVars
  /\ lastOp' = "-"
  /\ UNCHANGED tfVars
  /\ UNCHANGED <<listVars, ringVars, anaVars, attached, paVars, frameVars,
                 uvLocals, serial, resetSerial, uvHist>>

\* if (tracks.count == 0) return; detach process_audio from the previous track.
StDetach ==
  /\ cpc = "stDetach"
  /\ LET prev == CurrentTrack(current_track, Len(tracks))
     IN IF Len(tracks) = 0
        THEN /\ cpc' = cret
             /\ cret' = "idle" /\ stIndex' = 0
             /\ UNCHANGED attached
        ELSE /\ cpc' = "stSelect"
             /\ UNCHANGED callVars
             /\ IF prev # 0
                THEN /\ AudioLockFree
                     /\ attached' = Detach(attached, prev)
                ELSE UNCHANGED attached
  /\ lastOp' = "-"
  /\ UNCHANGED tfVars
  /\ UNCHANGED <<listVars, ringVars, anaVars, paVars, frameVars, uvLocals,
                 serial, resetSerial, uvHist>>

\* An index brought into range by clamping instead of wrapping.
ClampIndex(index, count) ==
  IF index < 0 THEN 0
  ELSE IF index >= count THEN count - 1
  ELSE index

\* The index taken as it is, out of range or not.
KeepIndex(index, count) == index

\* The wraparound of index.
WrapIndex(index, count) ==
  IF index < 0 THEN count - 1
  ELSE IF index >= count THEN 0
  ELSE index

StSelect ==
  /\ cpc = "stSelect"
  /\ current_track' = WrapIndex(stIndex, Len(tracks))
  /\ cpc' = "stSamples"
  /\ lastOp' = "-"
  /\ UNCHANGED tfVars
  /\ UNCHANGED <<tracks, error, has_music, paused, sample_rate, ringVars,
                 anaVars, attached, paVars, callVars, frameVars, uvLocals,
                 serial, resetSerial, uvHist>>

\* switch_track without the memset of samples.
StSamplesKeep ==
  /\ cpc = "stSamples"
  /\ cpc' = "stBuffers"
  /\ lastOp' = "-"
  /\ UNCHANGED tfVars
  /\ UNCHANGED <<listVars, ringVars, anaVars, attached, paVars, callVars,
                 frameVars, uvLocals, serial, resetSerial, uvHist>>

\* memset(plug->samples, 0, sizeof(plug->samples)).
StSamples ==
  /\ cpc = "stSamples"
  /\ samples' = ZeroSamples
  /\ cpc' = "stBuffers"
  /\ lastOp' = "-"
  /\ UNCHANGED tfVars
  /\ UNCHANGED <<listVars, sample_write, anaVars, attached, paVars, callVars,
                 frameVars, uvLocals, serial, resetSerial, uvHist>>

\* switch_track without the memset of bars, smear and spectrum.
StBuffersKeep ==
  /\ cpc = "stBuffers"
  /\ cpc' = "stCursor"
  /\ lastOp' = "-"
  /\ UNCHANGED tfVars
  /\ UNCHANGED <<listVars, ringVars, anaVars, attached, paVars, callVars,
                 frameVars, uvLocals, serial, resetSerial, uvHist>>

\* A track change that also clears the window table.
StBuffersAll ==
  /\ cpc = "stBuffers"
  /\ bars' = ZeroBands
  /\ smear' = ZeroBands
  /\ spectrum' = ZeroSpectrum
  /\ window' = ZeroSamples
  /\ window_ready' = FALSE
  /\ cpc' = "stCursor"
  /\ lastOp' = "-"
  /\ UNCHANGED tfVars
  /\ UNCHANGED <<listVars, ringVars, bass_history, overall_level, attached,
                 paVars, callVars, frameVars, uvLocals, serial, resetSerial,
                 uvHist>>

\* memset of bars, smear and spectrum.
StBuffers ==
  /\ cpc = "stBuffers"
  /\ bars' = ZeroBands
  /\ smear' = ZeroBands
  /\ spectrum' = ZeroSpectrum
  /\ cpc' = "stCursor"
  /\ lastOp' = "-"
  /\ UNCHANGED tfVars
  /\ UNCHANGED <<listVars, ringVars, window, window_ready, bass_history,
                 overall_level, attached, paVars, callVars, frameVars,
                 uvLocals, serial, resetSerial, uvHist>>

\* atomic_store(&plug->sample_write, 0); bass_history and overall_level.
StCursor ==
  /\ cpc = "stCursor"
  /\ sample_write' = 0
  /\ bass_history' = 0
  /\ overall_level' = overall_default
  /\ resetSerial' = serial
  /\ cpc' = "stAttach"
  /\ lastOp' = "-"
  /\ UNCHANGED tfVars
  /\ UNCHANGED <<listVars, samples, window, window_ready, spectrum, smear, bars,
                 attached, paVars, callVars, frameVars, uvLocals, serial,
                 uvHist>>

\* The new track started without plug->sample_rate being set.
StAttachNoRate ==
  /\ cpc = "stAttach"
  /\ AudioLockFree
  /\ attached' = Attach(attached, CurrentTrack(current_track, Len(tracks)))
  /\ paused' = FALSE
  /\ has_music' = TRUE
  /\ cpc' = cret
  /\ cret' = "idle" /\ stIndex' = 0
  /\ lastOp' = "switch_track"
  /\ UNCHANGED tfVars
  /\ UNCHANGED <<tracks, current_track, error, sample_rate, ringVars, anaVars,
                 paVars, frameVars, uvLocals, serial, resetSerial, uvHist>>

\* Set up and start the new track; return.
StAttach ==
  /\ cpc = "stAttach"
  /\ AudioLockFree
  /\ LET next == CurrentTrack(current_track, Len(tracks))
     IN /\ sample_rate' = tracks[next].sampleRate
        /\ attached' = Attach(attached, next)
  /\ paused' = FALSE
  /\ has_music' = TRUE
  /\ cpc' = cret
  /\ cret' = "idle" /\ stIndex' = 0
  /\ lastOp' = "switch_track"
  /\ UNCHANGED tfVars
  /\ UNCHANGED <<tracks, current_track, error, ringVars, anaVars, paVars,
                 frameVars, uvLocals, serial, resetSerial, uvHist>>

switch_track == StDetach \/ StSelect \/ StSamples \/ StBuffers \/ StCursor
                \/ StAttach

(***************************************************************************)
(* add_track_from_path(path) (plug.c:1154-1176): what it returns and what  *)
(* tracks and error become.  isNull: path is NULL; music: what             *)
(* LoadMusicStream(path) returns.                                          *)
(***************************************************************************)
\* add_track_from_path without the IsMusicValid test.
add_track_unchecked(isNull, music) ==
  IF isNull
  THEN [ok |-> FALSE, tracks |-> tracks, error |-> error]
  ELSE [ok |-> TRUE, tracks |-> Append(tracks, music), error |-> FALSE]

add_track_from_path(isNull, music) ==
  IF isNull
  THEN [ok |-> FALSE, tracks |-> tracks, error |-> error]
  ELSE IF ~IsMusicValid(music)
  THEN [ok |-> FALSE, tracks |-> tracks, error |-> TRUE]
  ELSE [ok |-> TRUE, tracks |-> Append(tracks, music), error |-> FALSE]

(***************************************************************************)
(* plug_update (plug.c:1464-1492): one frame, handler by handler.          *)
(***************************************************************************)
\* A frame starts; GetFrameTime() is d for the whole frame.
BeginFrame ==
  /\ cpc = "idle"
  /\ ~reloading
  /\ frame < MaxFrames
  /\ frame' = frame + 1
  /\ \E d \in FrameTimes : dt' = d
  /\ cpc' = "tiny"
  /\ lastOp' = "-"
  /\ UNCHANGED tfVars
  /\ UNCHANGED <<listVars, ringVars, anaVars, attached, paVars, callVars,
                 reloading, uvLocals, serial, resetSerial, uvHist>>

\* handle_tiny_dialogs_open (plug.c:1317-1367).
HandleTinyDialogsOpenOn(S) ==
  /\ cpc = "tiny"
  /\ IF has_music
     THEN /\ cpc' = "input"
          /\ UNCHANGED <<tracks, error, has_music, callVars>>
     ELSE \E click \in BOOLEAN, isNull \in BOOLEAN,
             music \in LoadableFrom(S, Len(tracks)) :
            IF click
            THEN LET r == add_track_from_path(isNull, music)
                 IN /\ tracks' = r.tracks
                    /\ error' = r.error
                    /\ IF r.ok
                       THEN /\ has_music' = TRUE
                            /\ CallSwitchTrack(0, "input")
                       ELSE /\ cpc' = "input"
                            /\ UNCHANGED <<has_music, callVars>>
            ELSE /\ cpc' = "input"
                 /\ UNCHANGED <<tracks, error, has_music, callVars>>
  /\ lastOp' = "-"
  /\ UNCHANGED tfVars
  /\ UNCHANGED <<current_track, paused, sample_rate, ringVars, anaVars,
                 attached, paVars, frameVars, uvLocals, serial, resetSerial,
                 uvHist>>

HandleTinyDialogsOpen == HandleTinyDialogsOpenOn(Streams)

\* handle_input (plug.c:1007-1067): SPACE, then N.
HandleInput ==
  /\ cpc = "input"
  /\ IF ~has_music
     THEN /\ cpc' = "drop"
          /\ UNCHANGED <<paused, callVars>>
     ELSE \E space \in BOOLEAN, keyN \in BOOLEAN :
            /\ paused' = IF space THEN ~paused ELSE paused
            /\ IF keyN
               THEN CallSwitchTrack(current_track + 1, "inputP")
               ELSE /\ cpc' = "inputP"
                    /\ UNCHANGED callVars
  /\ lastOp' = "-"
  /\ UNCHANGED tfVars
  /\ UNCHANGED <<tracks, current_track, error, has_music, sample_rate,
                 ringVars, anaVars, attached, paVars, frameVars, uvLocals,
                 serial, resetSerial, uvHist>>

\* handle_input: P.
HandleInputP ==
  /\ cpc = "inputP"
  /\ \E keyP \in BOOLEAN :
       IF keyP
       THEN CallSwitchTrack(current_track - 1, "inputClick")
       ELSE /\ cpc' = "inputClick"
            /\ UNCHANGED callVars
  /\ lastOp' = "-"
  /\ UNCHANGED tfVars
  /\ UNCHANGED <<listVars, ringVars, anaVars, attached, paVars, frameVars,
                 uvLocals, serial, resetSerial, uvHist>>

\* handle_input: a click on the play icon.
HandleInputClick ==
  /\ cpc = "inputClick"
  /\ \E click \in BOOLEAN : paused' = IF click THEN ~paused ELSE paused
  /\ cpc' = "drop"
  /\ lastOp' = "-"
  /\ UNCHANGED tfVars
  /\ UNCHANGED <<tracks, current_track, error, has_music, sample_rate,
                 ringVars, anaVars, attached, paVars, callVars, frameVars,
                 uvLocals, serial, resetSerial, uvHist>>

\* The lists of valid streams a drop can add to a playlist of count tracks.
DropListsFrom(S, count) ==
  UNION {[1 .. n -> S] : n \in 0 .. (MaxTracks - count)}
DropLists(count) == DropListsFrom(Streams, count)

\* handle_file_drop that restarts playback whenever the playlist is not empty.
HandleFileDropRestartOn(S) ==
  /\ cpc = "drop"
  /\ \E files \in DropListsFrom(S, Len(tracks)) :
       /\ tracks' = tracks \o files
       /\ cpc' = IF Len(tracks) + Len(files) > 0
                 THEN "dropReset" ELSE "nextq"
  /\ lastOp' = "-"
  /\ UNCHANGED tfVars
  /\ UNCHANGED <<current_track, error, has_music, paused, sample_rate,
                 ringVars, anaVars, attached, paVars, callVars, frameVars,
                 uvLocals, serial, resetSerial, uvHist>>

\* handle_file_drop (plug.c:1076-1096): the valid files are appended.
HandleFileDropOn(S) ==
  /\ cpc = "drop"
  /\ \E files \in DropListsFrom(S, Len(tracks)) :
       /\ tracks' = tracks \o files
       /\ cpc' = IF ~has_music /\ Len(tracks) + Len(files) > 0
                 THEN "dropReset" ELSE "nextq"
  /\ lastOp' = "-"
  /\ UNCHANGED tfVars
  /\ UNCHANGED <<current_track, error, has_music, paused, sample_rate,
                 ringVars, anaVars, attached, paVars, callVars, frameVars,
                 uvLocals, serial, resetSerial, uvHist>>

HandleFileDrop == HandleFileDropOn(Streams)

\* handle_file_drop (plug.c:1098-1107): the first tracks start playing.
HandleFileDropReset ==
  /\ cpc = "dropReset"
  /\ current_track' = 0
  /\ has_music' = TRUE
  /\ paused' = FALSE
  /\ samples' = ZeroSamples
  /\ sample_write' = 0
  /\ resetSerial' = serial
  /\ CallSwitchTrack(0, "nextq")
  /\ lastOp' = "-"
  /\ UNCHANGED tfVars
  /\ UNCHANGED <<tracks, error, sample_rate, anaVars, attached, paVars,
                 frameVars, uvLocals, serial, uvHist>>

\* next_track_in_queue without the test for the last track.
NextTrackInQueueWrap ==
  /\ cpc = "nextq"
  /\ \E nearEnd \in BOOLEAN :
       IF has_music /\ Len(tracks) > 1 /\ ~paused /\ nearEnd
       THEN CallSwitchTrack(current_track + 1, "visualizer")
       ELSE /\ cpc' = "visualizer"
            /\ UNCHANGED callVars
  /\ lastOp' = "-"
  /\ UNCHANGED tfVars
  /\ UNCHANGED <<listVars, ringVars, anaVars, attached, paVars, frameVars,
                 uvLocals, serial, resetSerial, uvHist>>

\* next_track_in_queue (plug.c:968-980); nearEnd: the track is within 0.1 s
\* of its end.
NextTrackInQueue ==
  /\ cpc = "nextq"
  /\ \E nearEnd \in BOOLEAN :
       IF /\ has_music /\ Len(tracks) > 1 /\ ~paused
          /\ current_track # Len(tracks) - 1
          /\ nearEnd
       THEN CallSwitchTrack(current_track + 1, "visualizer")
       ELSE /\ cpc' = "visualizer"
            /\ UNCHANGED callVars
  /\ lastOp' = "-"
  /\ UNCHANGED tfVars
  /\ UNCHANGED <<listVars, ringVars, anaVars, attached, paVars, frameVars,
                 uvLocals, serial, resetSerial, uvHist>>

(***************************************************************************)
(* update_visualizer (plug.c:632-730), one step per shared-memory access.  *)
(***************************************************************************)
\* update_visualizer that runs whenever music is loaded, paused or not.
UvBeginWhilePaused ==
  /\ cpc = "visualizer"
  /\ IF has_music
     THEN /\ cpc' = "uvLoad"
          /\ IF ~window_ready
             THEN /\ window' = [i \in Slots |-> Hann(i)]
                  /\ window_ready' = TRUE
             ELSE UNCHANGED <<window, window_ready>>
     ELSE /\ cpc' = "queue"
          /\ UNCHANGED <<window, window_ready>>
  /\ lastOp' = "-"
  /\ UNCHANGED tfVars
  /\ UNCHANGED <<listVars, ringVars, spectrum, smear, bars, bass_history,
                 overall_level, attached, paVars, callVars, frameVars,
                 uvLocals, serial, resetSerial, uvHist>>

\* if (has_music && !paused); the Hann window is filled on the first pass.
UvBegin ==
  /\ cpc = "visualizer"
  /\ IF has_music /\ ~paused
     THEN /\ cpc' = "uvLoad"
          /\ IF ~window_ready
             THEN /\ window' = [i \in Slots |-> Hann(i)]
                  /\ window_ready' = TRUE
             ELSE UNCHANGED <<window, window_ready>>
     ELSE /\ cpc' = "queue"
          /\ UNCHANGED <<window, window_ready>>
  /\ lastOp' = "-"
  /\ UNCHANGED tfVars
  /\ UNCHANGED <<listVars, ringVars, spectrum, smear, bars, bass_history,
                 overall_level, attached, paVars, callVars, frameVars,
                 uvLocals, serial, resetSerial, uvHist>>

\* A snapshot that starts at slot 0 whatever the cursor is.
UvLoadStale ==
  /\ cpc = "uvLoad"
  /\ uvW' = 0
  /\ uvI' = 0
  /\ cpc' = "uvCopy"
  /\ uvLoads' = uvLoads + 1
  /\ uvQuiet' = (paPc = "idle")
  /\ loadSerial' = serial
  /\ loadOpen' = paI
  /\ lastOp' = "-"
  /\ UNCHANGED tfVars
  /\ UNCHANGED <<listVars, ringVars, anaVars, attached, paVars, callVars,
                 frameVars, tmp, serial, resetSerial, snap>>

\* unsigned w = atomic_load_explicit(&plug->sample_write, acquire).
UvLoad ==
  /\ cpc = "uvLoad"
  /\ uvW' = sample_write
  /\ uvI' = 0
  /\ cpc' = "uvCopy"
  /\ uvLoads' = uvLoads + 1
  /\ uvQuiet' = (paPc = "idle")
  /\ loadSerial' = serial
  /\ loadOpen' = paI
  /\ lastOp' = "-"
  /\ UNCHANGED tfVars
  /\ UNCHANGED <<listVars, ringVars, anaVars, attached, paVars, callVars,
                 frameVars, tmp, serial, resetSerial, snap>>

\* The copy loop without the cursor offset: tmp[i] = samples[i] * window[i].
UvCopyNoOffset ==
  /\ cpc = "uvCopy"
  /\ tmp' = [tmp EXCEPT ![uvI] = MulFx(samples[uvI], window[uvI])]
  /\ snap' = [snap EXCEPT ![uvI] = samples[uvI]]
  /\ uvI' = uvI + 1
  /\ cpc' = IF uvI + 1 < N THEN "uvCopy" ELSE "uvAnalyze"
  /\ lastOp' = "-"
  /\ UNCHANGED tfVars
  /\ UNCHANGED <<listVars, ringVars, anaVars, attached, paVars, callVars,
                 frameVars, uvW, serial, resetSerial, uvQuiet, uvLoads,
                 loadSerial, loadOpen>>

\* One turn of the copy loop: tmp[i] = samples[(w + i) % N] * window[i].
UvCopy ==
  /\ cpc = "uvCopy"
  /\ LET idx == (uvW + uvI) % N
     IN /\ tmp' = [tmp EXCEPT ![uvI] = MulFx(samples[idx], window[uvI])]
        /\ snap' = [snap EXCEPT ![uvI] = samples[idx]]
  /\ uvI' = uvI + 1
  /\ cpc' = IF uvI + 1 < N THEN "uvCopy" ELSE "uvAnalyze"
  /\ lastOp' = "-"
  /\ UNCHANGED tfVars
  /\ UNCHANGED <<listVars, ringVars, anaVars, attached, paVars, callVars,
                 frameVars, uvW, serial, resetSerial, uvQuiet, uvLoads,
                 loadSerial, loadOpen>>

\* Transform, bucketizer and smoother; the function returns and its locals die.
UvAnalyze ==
  /\ cpc = "uvAnalyze"
  /\ LET r == Analyze(tmp, spectrum, sample_rate, dt, bars, bass_history,
                      overall_level)
     IN /\ spectrum' = r.spectrum
        /\ bars' = r.bars
        /\ bass_history' = r.bass_history
        /\ overall_level' = r.overall_level
  /\ cpc' = "queue"
  /\ uvW' = 0 /\ uvI' = 0 /\ tmp' = ZeroSamples
  /\ snap' = ZeroSamples /\ uvQuiet' = FALSE /\ uvLoads' = 0
  /\ loadSerial' = 0 /\ loadOpen' = 0
  /\ lastOp' = "-"
  /\ UNCHANGED tfVars
  /\ UNCHANGED <<listVars, ringVars, window, window_ready, smear, attached,
                 paVars, callVars, frameVars, serial, resetSerial>>

update_visualizer == UvBegin \/ UvLoad \/ UvCopy \/ UvAnalyze

(***************************************************************************)
(* The drawing handlers that change the state.                             *)
(***************************************************************************)
\* draw_queue (plug.c:393-487): a click on item click of the queue, -1: none.
DrawQueue ==
  /\ cpc = "queue"
  /\ IF ~has_music
     THEN /\ cpc' = "bars"
          /\ UNCHANGED callVars
     ELSE \E click \in -1 .. Len(tracks) - 1 :
            IF click >= 0
            THEN CallSwitchTrack(click, "bars")
            ELSE /\ cpc' = "bars"
                 /\ UNCHANGED callVars
  /\ lastOp' = "-"
  /\ UNCHANGED tfVars
  /\ UNCHANGED <<listVars, ringVars, anaVars, attached, paVars, frameVars,
                 uvLocals, serial, resetSerial, uvHist>>

\* The smear of one bar in draw_bars (plug.c:520-529).
SmearStep(sm, bar, d) ==
  LET intensity == IF bar > smear_cap THEN smear_cap
                   ELSE IF bar < 0 THEN 0 ELSE bar
  IN sm + MulFx(MulFx(intensity - sm, smear_speed), d)

\* draw_bars (plug.c:498-621).
DrawBars ==
  /\ cpc = "bars"
  /\ smear' = IF has_music
              THEN [i \in Bands |-> SmearStep(smear[i], bars[i], dt)]
              ELSE smear
  /\ cpc' = "browser"
  /\ lastOp' = "-"
  /\ UNCHANGED tfVars
  /\ UNCHANGED <<listVars, ringVars, window, window_ready, spectrum, bars,
                 bass_history, overall_level, attached, paVars, callVars,
                 frameVars, uvLocals, serial, resetSerial, uvHist>>

\* draw_internal_browser (plug.c:1201-1291): a click on a music file.
DrawInternalBrowserOn(S) ==
  /\ cpc = "browser"
  /\ \E click \in BOOLEAN, music \in LoadableFrom(S, Len(tracks)) :
       IF click
       THEN LET r == add_track_from_path(FALSE, music)
            IN /\ tracks' = r.tracks
               /\ error' = r.error
               /\ IF r.ok /\ ~has_music
                  THEN /\ has_music' = TRUE
                       /\ CallSwitchTrack(0, "end")
                  ELSE /\ cpc' = "end"
                       /\ UNCHANGED <<has_music, callVars>>
       ELSE /\ cpc' = "end"
            /\ UNCHANGED <<tracks, error, has_music, callVars>>
  /\ lastOp' = "-"
  /\ UNCHANGED tfVars
  /\ UNCHANGED <<current_track, paused, sample_rate, ringVars, anaVars,
                 attached, paVars, frameVars, uvLocals, serial, resetSerial,
                 uvHist>>

DrawInternalBrowser == DrawInternalBrowserOn(Streams)

\* EndDrawing: the frame is over.
EndFrame ==
  /\ cpc = "end"
  /\ cpc' = "idle"
  /\ dt' = 0
  /\ lastOp' = "-"
  /\ UNCHANGED tfVars
  /\ UNCHANGED <<listVars, ringVars, anaVars, attached, paVars, callVars,
                 frame, reloading, uvLocals, serial, resetSerial, uvHist>>

plug_update ==
  \/ BeginFrame \/ HandleTinyDialogsOpen \/ HandleInput \/ HandleInputP
  \/ HandleInputClick \/ HandleFileDrop \/ HandleFileDropReset
  \/ NextTrackInQueue \/ update_visualizer \/ DrawQueue \/ DrawBars
  \/ DrawInternalBrowser \/ EndFrame \/ switch_track

(***************************************************************************)
(* Hot reload, between two frames.                                         *)
(***************************************************************************)
\* plug_pre_reload that leaves process_audio attached.
PreReloadKeep ==
  /\ cpc = "idle"
  /\ ~reloading
  /\ reloading' = TRUE
  /\ lastOp' = "-"
  /\ UNCHANGED tfVars
  /\ UNCHANGED <<listVars, ringVars, anaVars, attached, paVars, cpc, callVars,
                 frame, dt, uvLocals, serial, resetSerial, uvHist>>

\* plug_pre_reload (plug.c:1402-1409).
plug_pre_reload ==
  /\ cpc = "idle"
  /\ ~reloading
  /\ IF has_music
     THEN /\ AudioLockFree
          /\ attached' = Detach(attached,
                                CurrentTrack(current_track, Len(tracks)))
     ELSE UNCHANGED attached
  /\ reloading' = TRUE
  /\ lastOp' = "-"
  /\ UNCHANGED tfVars
  /\ UNCHANGED <<listVars, ringVars, anaVars, paVars, cpc, callVars, frame, dt,
                 uvLocals, serial, resetSerial, uvHist>>

\* plug_post_reload (plug.c:1389-1395).
plug_post_reload ==
  /\ cpc = "idle"
  /\ reloading
  /\ IF has_music
     THEN /\ AudioLockFree
          /\ attached' = Attach(attached,
                                CurrentTrack(current_track, Len(tracks)))
     ELSE UNCHANGED attached
  /\ reloading' = FALSE
  /\ lastOp' = "-"
  /\ UNCHANGED tfVars
  /\ UNCHANGED <<listVars, ringVars, anaVars, paVars, cpc, callVars, frame, dt,
                 uvLocals, serial, resetSerial, uvHist>>

Next == process_audio \/ plug_update \/ plug_pre_reload \/ plug_post_reload

Spec == Init /\ [][Next]_vars

(***************************************************************************)
(* The frame thread on its own: the audio device delivers nothing, so the  *)
(* ring buffer stays silent, and the files loaded are of either kind.      *)
(* process_audio writes only samples, sample_write and its own locals, so  *)
(* the playlist, the flags and sample_rate evolve here as they do in Spec. *)
(***************************************************************************)
HandleTinyDialogsOpenAny == HandleTinyDialogsOpenOn(AllStreams)
HandleFileDropAny == HandleFileDropOn(AllStreams)
DrawInternalBrowserAny == DrawInternalBrowserOn(AllStreams)

NextPlaylist ==
  \/ BeginFrame \/ HandleTinyDialogsOpenAny \/ HandleInput \/ HandleInputP
  \/ HandleInputClick \/ HandleFileDropAny \/ HandleFileDropReset
  \/ NextTrackInQueue \/ update_visualizer \/ DrawQueue \/ DrawBars
  \/ DrawInternalBrowserAny \/ EndFrame \/ switch_track
  \/ plug_pre_reload \/ plug_post_reload

SpecPlaylist == Init /\ [][NextPlaylist]_vars

(***************************************************************************)
(* switch_track as a function of its argument: besides the calls the       *)
(* handlers make, it is called between frames with any index from -2 to    *)
(* MaxTracks + 1, on the empty playlist too.                               *)
(***************************************************************************)
SwitchIndexes == -2 .. MaxTracks + 1

SwitchCall ==
  /\ cpc = "idle" /\ ~reloading
  /\ \E index \in SwitchIndexes : CallSwitchTrack(index, "idle")
  /\ lastOp' = "-"
  /\ UNCHANGED tfVars
  /\ UNCHANGED <<listVars, ringVars, anaVars, attached, paVars, frameVars,
                 uvLocals, serial, resetSerial, uvHist>>

NextSwitch == NextPlaylist \/ SwitchCall

SpecSwitch == Init /\ [][NextSwitch]_vars

(***************************************************************************)
(* The smoother on its own: step 5 of update_visualizer from the clamped   *)
(* target on, frame after frame from the state plug_init leaves. Band 0,   *)
(* which feeds bass_history, gets any target; every other band has its     *)
(* target held at 1.0.                                                     *)
(***************************************************************************)
SmoothFrame ==
  /\ cpc = "idle"
  /\ frame < SmoothFrames
  /\ \E d \in SmoothTimes, t0 \in SmoothTargets :
       LET target == [i \in Bands |-> IF i = 0 THEN t0 ELSE FX]
           bh == NextBass(bass_history, target[0])
       IN /\ bass_history' = bh
          /\ bars' = [i \in Bands |-> SmoothBar(bars[i], target[i], bh, d)]
          /\ dt' = d
  /\ frame' = frame + 1
  /\ UNCHANGED <<listVars, ringVars, window, window_ready, spectrum, smear,
                 overall_level, attached, paVars, cpc, callVars, reloading,
                 uvLocals, serial, resetSerial, uvHist, lastOp, tfVars>>

SpecSmooth == Init /\ [][SmoothFrame]_vars

(***************************************************************************)
(* The pure functions called on their own: the transform of plug.c and of  *)
(* fft.c on arrays of up to TfMax entries, the amplitude of plug.c and of  *)
(* music.c, and the bucketizer loop of update_visualizer.                  *)
(***************************************************************************)
\* float pi; of fft.c: a global that is never assigned, so zero.
pi == 0

\* cexp(-I * 2 * pi * t) of fft.c: 1 for every t while pi is zero.
fft_twiddle(k, size) == IF pi = 0 THEN <<FX, 0>> ELSE Twiddle(k, size)

\* The butterfly loop of fft.c, from index k on.
RECURSIVE fft_butterfly(_, _, _, _)
fft_butterfly(out, ooff, size, k) ==
  IF k >= size \div 2 THEN out
  ELSE LET v == CMul(fft_twiddle(k, size), out[ooff + k + size \div 2])
           e == out[ooff + k]
       IN fft_butterfly([out EXCEPT ![ooff + k] = CAdd(e, v),
                                    ![ooff + k + size \div 2] = CSub(e, v)],
                        ooff, size, k + 1)

\* fft(in + ioff, stride, out + ooff, size) of fft.c for size > 0, where its
\* assert(size > 0) passes at every level: the output array afterwards.
RECURSIVE fft(_, _, _, _, _, _)
fft(in, ioff, stride, out, ooff, size) ==
  IF size = 1 THEN [out EXCEPT ![ooff] = <<in[ioff], 0>>]
  ELSE LET o1 == fft(in, ioff, stride * 2, out, ooff, size \div 2)
           o2 == fft(in, ioff + stride, stride * 2, o1, ooff + size \div 2,
                     size \div 2)
       IN fft_butterfly(o2, ooff, size, 0)

\* amp of music.c: if (a < b) return b; return a;
amp(z) ==
  LET a == Abs(z[1])
      b == Abs(z[2])
  IN IF a < b THEN b ELSE a

TfIndex == 0 .. TfMax - 1
TfSizes == 0 .. TfMax
TfFns == {"compute_fft", "fft"}

\* Inputs of the transform: impulses of two heights, a constant, a ramp.
TfImpulse(h) == [i \in TfIndex |-> IF i = 0 THEN h ELSE 0]
TfInputs ==
  {TfImpulse(FX), TfImpulse(FX + FX \div 2), [i \in TfIndex |-> FX],
   [i \in TfIndex |-> 100 * (i + 1)]}

\* What the caller's output array holds before the call: the function is
\* handed memory it did not initialise.
TfGarbage == {<<0, 0>>, <<7, -9>>}

\* Arguments of the amplitude: both parts of either sign, zero, and 3 + 4i.
TfParts == {-4 * FX, -3 * FX, -1, 0, 1, 3 * FX, 4 * FX}
TfZs == TfParts \X TfParts

\* Sample rates the bucketizer is run with: those of the streams, and zero.
TfRates == {0} \cup {st.sampleRate : st \in AllStreams}

\* What the conversion of an infinite or NaN float to size_t can yield.
UbBins == {0, N}

IsPow2(n) == \E e \in 0 .. TfMax : n = 2 ^ e

InitTransform ==
  /\ InitIdle
  /\ \/ /\ tfCall \in {[status |-> "called", fn |-> f, n |-> n, in |-> x,
                         out |-> [i \in TfIndex |-> g]] :
                          f \in TfFns, n \in TfSizes, x \in TfInputs,
                          g \in TfGarbage}
        /\ ampCall = NoCall /\ bkCall = NoCall
     \/ /\ ampCall \in {[status |-> "called", z |-> z] : z \in TfZs}
        /\ tfCall = NoCall /\ bkCall = NoCall
     \/ /\ bkCall \in {[status |-> "called", rate |-> r] : r \in TfRates}
        /\ tfCall = NoCall /\ ampCall = NoCall

\* compute_fft(in, 1, out, n) of plug.c, or fft(in, 1, out, n) of fft.c.
\* compute_fft tests nothing but n == 1: with n = 0 it calls itself with
\* n / 2 = 0 until the stack is exhausted.  fft asserts size > 0.
TransformCall ==
  /\ tfCall.status = "called"
  /\ tfCall' =
       IF tfCall.n = 0
       THEN [tfCall EXCEPT !.status = IF tfCall.fn = "fft" THEN "aborted"
                                      ELSE "overflow"]
       ELSE [tfCall EXCEPT
               !.status = "returned",
               !.out = IF tfCall.fn = "fft"
                       THEN fft(tfCall.in, 0, 1, tfCall.out, 0, tfCall.n)
                       ELSE compute_fft(tfCall.in, 0, 1, tfCall.out, 0,
                                        tfCall.n)]
  /\ UNCHANGED <<listVars, ringVars, anaVars, attached, paVars, cVars, serial,
                 resetSerial, uvHist, lastOp, ampCall, bkCall>>

\* get_amplitude(z) of plug.c and amp(z) of music.c.
AmplitudeCall ==
  /\ ampCall.status = "called"
  /\ ampCall' = [status |-> "returned", z |-> ampCall.z,
                 plug |-> get_amplitude(ampCall.z), music |-> amp(ampCall.z)]
  /\ UNCHANGED <<listVars, ringVars, anaVars, attached, paVars, cVars, serial,
                 resetSerial, uvHist, lastOp, tfCall, bkCall>>

\* The bucketizer loop (plug.c:663-680) run with the given sample rate: k0
\* and k1 of every band.  With rate 0 the quotients f0 * N / 0 and
\* f1 * N / 0 are infinite or NaN and their conversion to size_t is
\* undefined; nothing in the loop tests the rate.
BucketCall ==
  /\ bkCall.status = "called"
  /\ IF bkCall.rate = 0
     THEN \E a \in [Bands -> UbBins], b \in [Bands -> UbBins] :
            bkCall' = [status |-> "returned", rate |-> 0, k0 |-> a,
                       k1 |-> [i \in Bands |-> IF b[i] <= a[i] THEN a[i] + 1
                                                               ELSE b[i]]]
     ELSE bkCall' = [status |-> "returned", rate |-> bkCall.rate,
                     k0 |-> [i \in Bands |-> BandK0(bkCall.rate, i)],
                     k1 |-> [i \in Bands |-> BandK1(bkCall.rate, i)]]
  /\ UNCHANGED <<listVars, ringVars, anaVars, attached, paVars, cVars, serial,
                 resetSerial, uvHist, lastOp, tfCall, ampCall>>

NextTransform == TransformCall \/ AmplitudeCall \/ BucketCall

SpecTransform == InitTransform /\ [][NextTransform]_vars

(***************************************************************************)
(* What the ring buffer has to hold, from the counts of samples alone.     *)
(***************************************************************************)
\* Samples pushed since the last reset.
Pushed == serial - resetSerial

\* The slot the k-th sample of the device goes to, k > resetSerial.
SlotOf(k) == (k - resetSerial - 1) % N

\* The samples among those numbered from..to that go to slot s.
SamplesAt(from, to, s) == {k \in from .. to : SlotOf(k) = s}

\* The value slot s holds once the samples up to number m are pushed.
HeldAfter(m, s) ==
  LET ks == SamplesAt(resetSerial + 1, m, s)
  IN IF ks = {} THEN 0
     ELSE SampleOf(CHOOSE k \in ks : \A j \in ks : j <= k)

\* The copy loop is over, and no callback ran from the cursor load on.
QuietSnapshot == cpc = "uvAnalyze" /\ uvQuiet

\* C1: with the producer quiescent during the copy, once N or more samples
\* are pushed since the last reset (exactly N, or N + k in whatever batches),
\* the snapshot, before windowing, is the last N pushed samples, oldest first.
C1_SnapshotLastN ==
  (QuietSnapshot /\ loadSerial - resetSerial >= N)
    => \A i \in Slots : snap[i] = SampleOf(loadSerial - N + 1 + i)

\* A quiet snapshot after the buffer has wrapped: more than N samples pushed.
C1_Witness ==
  QuietSnapshot /\ loadSerial - resetSerial = N + ExtraSamples /\ uvW > 0

\* C2: when switch_track has started the next track of a non-empty playlist,
\* every bar and smear is 0, bass_history is 0, overall_level is 0.5, every
\* ring slot and spectrum entry is 0 and the write cursor is 0: the analysis
\* state plug_init establishes.
C2_TrackChangeResets ==
  lastOp = "switch_track"
    => /\ bars = ZeroBands
       /\ smear = ZeroBands
       /\ bass_history = 0
       /\ overall_level = overall_default
       /\ samples = ZeroSamples
       /\ spectrum = ZeroSpectrum
       /\ sample_write = 0

\* A track change in the second frame, after samples were pushed.
C2_Witness == lastOp = "switch_track" /\ resetSerial > 0 /\ frame = MaxFrames

\* C3: whenever switch_track or handle_file_drop is about to reset the ring
\* buffer or its cursor, and until switch_track attaches the next track, no
\* audio processor is attached and no callback is in progress.
C3_ResetWhileDetached ==
  cpc \in {"dropReset", "stSamples", "stBuffers", "stCursor", "stAttach"}
    => /\ \A t \in TrackIds : attached[t] = 0
       /\ paPc = "idle"

\* The reset of a switch away from a track that has pushed samples.
C3_Witness == cpc = "stSamples" /\ serial > resetSerial

\* C4: the fields process_audio reads besides the ring buffer and its
\* cursor, which are the playlist and the current-track index it reads
\* through current_track(), are not modified while a processor is attached.
C4_OnlyRingShared ==
  [][(\E t \in TrackIds : attached[t] > 0)
       => (tracks' = tracks /\ current_track' = current_track)]_vars

\* Every sample of the completed calls that no later push has overwritten is
\* in its slot.
CommittedHeld ==
  LET c == IF paPc = "idle" THEN serial ELSE paBase
  IN \A k \in (resetSerial + 1) .. c :
       k > serial - N => samples[SlotOf(k)] = SampleOf(k)

\* C5: process_audio stores the cursor only when every sample of its batch
\* is written (the only other stores are the resets); update_visualizer
\* loads the cursor once, before it reads any slot; and at that load the
\* slots of the batches already committed hold the pushed samples.
C5_PublishAfterWrite ==
  [][/\ sample_write' # sample_write
          => \/ paPc = "store" /\ paI = paFrames /\ sample_write' = paW
             \/ cpc \in {"stCursor", "dropReset"} /\ sample_write' = 0
     /\ uvLoads' = uvLoads + 1
          => uvLoads = 0 /\ uvI = 0 /\ uvW' = sample_write /\ CommittedHeld
     /\ snap' # snap /\ cpc = "uvCopy"
          => uvLoads = 1 /\ uvW' = uvW]_vars

\* The cursor is loaded while a call is in the middle of its batch, after
\* an earlier call has committed samples.
C5_Witness ==
  /\ cpc = "uvCopy" /\ uvI = 0 /\ uvLoads = 1
  /\ loadOpen > 0 /\ paPc = "write"
  /\ loadSerial - loadOpen > resetSerial

\* C6: the cursor is in [0, N) and is the number of samples the completed
\* calls have pushed since the last reset, modulo N; a call with f frames
\* writes f consecutive slots from the cursor on, wrapping, stores the cursor
\* advanced by f, and can always take its next step.
C6_CursorCountsPushes ==
  /\ sample_write \in 0 .. N - 1
  /\ paPc = "idle" => sample_write = Pushed % N
  /\ paPc # "idle"
       => /\ sample_write = (paBase - resetSerial) % N
          /\ serial = paBase + paI
          /\ paI <= paFrames
          /\ paW = (sample_write + paI) % N
          /\ \A j \in 0 .. paI - 1 :
               j >= paI - N
                 => samples[(sample_write + j) % N] = SampleOf(paBase + j + 1)
          /\ paPc = "store" => paI = paFrames
          /\ ENABLED (PaWrite \/ PaStore)

\* A call has written its last sample after wrapping past the end of the
\* buffer.
C6_Witness == paPc = "store" /\ paFrames > 1 /\ paW < sample_write

SnapSlot(i) == (uvW + i) % N

\* The values pushed to slot s since the cursor load.
WrittenSince(s) == {SampleOf(k) : k \in SamplesAt(loadSerial + 1, serial, s)}

\* a is older than b; the zeros of a reset are as old as each other.
Older(a, b) == a < b \/ (a = 0 /\ b = 0)

\* The copy loop never waits, ends after N reads, and every entry is what
\* its slot held at the cursor load or what was pushed to it since.
SnapshotEntries ==
  /\ cpc = "uvCopy" => ENABLED UvCopy
  /\ cpc = "uvAnalyze" => uvI = N
  /\ cpc \in {"uvCopy", "uvAnalyze"}
       => \A i \in 0 .. uvI - 1 :
            snap[i] \in {HeldAfter(loadSerial, SnapSlot(i))}
                          \cup WrittenSince(SnapSlot(i))

\* C8 as stated: under every interleaving the snapshot takes no lock, ends
\* after N reads, every entry is what its slot held at the cursor load or
\* what the producer wrote to it afterwards, and the entries whose slots the
\* producer did not write during the copy are in chronological order.
C8_AsStated ==
  /\ SnapshotEntries
  /\ cpc = "uvAnalyze"
       => \A i, j \in Slots :
            (/\ i < j
             /\ WrittenSince(SnapSlot(i)) = {}
             /\ WrittenSince(SnapSlot(j)) = {})
              => Older(snap[i], snap[j])

\* C8, amended: the entries in chronological order are those whose slots were
\* written neither during the copy nor, before the cursor load, by the call
\* that was in progress at the load.
C8_TornSnapshot ==
  /\ SnapshotEntries
  /\ cpc = "uvAnalyze"
       => \A i, j \in Slots :
            (/\ i < j
             /\ i >= loadOpen
             /\ WrittenSince(SnapSlot(i)) = {}
             /\ WrittenSince(SnapSlot(j)) = {})
              => Older(snap[i], snap[j])

\* A snapshot with an entry pushed during the copy and two that were not.
C8_Witness ==
  /\ cpc = "uvAnalyze"
  /\ \E i \in Slots : snap[i] \in WrittenSince(SnapSlot(i))
  /\ \E i, j \in Slots :
       /\ loadOpen <= i /\ i < j /\ snap[i] > 0
       /\ WrittenSince(SnapSlot(i)) = {} /\ WrittenSince(SnapSlot(j)) = {}

\* C9: every bar is within [0, 1.5] after the smoother has run, for every
\* target and every frame duration dt >= 0, also when smoothness * dt > 1.
C9_BarsInRange == \A i \in Bands : 0 <= bars[i] /\ bars[i] <= bars_max

\* A frame with smoothness_up * dt > 1 has left a bar at the ceiling.
C9_Witness ==
  /\ frame > 0
  /\ MulFx(SmoothUp(bass_history), dt) > FX
  /\ \E i \in Bands : bars[i] = bars_max

\* C10: from 0 and with its target held at 1.0, a band value does not
\* decrease from one frame to the next, gets no farther from the target and
\* never exceeds 1.5, whatever the frame durations.
C10_MonotoneApproach ==
  [][dt' > 0
       => \A i \in Bands \ {0} :
            /\ bars'[i] >= bars[i]
            /\ Abs(FX - bars'[i]) <= Abs(FX - bars[i])
            /\ bars'[i] <= bars_max]_vars

C12_WindowOnce ==
  [][/\ window_ready => (window_ready' /\ window' = window)
     /\ (window' # window \/ window_ready' # window_ready)
          => /\ ~window_ready /\ window_ready'
             /\ cpc = "visualizer" /\ has_music /\ ~paused
             /\ window' = [i \in Slots |-> Hann(i)]]_vars

\* A track change, in a later frame, after the window table was computed.
C12_Witness ==
  /\ window_ready /\ lastOp = "switch_track" /\ frame = MaxFrames
  /\ window = [i \in Slots |-> Hann(i)] /\ window # ZeroSamples

\* update_visualizer is past its guard: the analysis of this frame runs.
AnalysisRuns == cpc \in {"uvLoad", "uvCopy", "uvAnalyze"}

\* C13: whenever update_visualizer runs the analysis, music is loaded and not
\* paused, and plug->sample_rate is non-zero and is the sample rate of the
\* current track's stream.
C13_SampleRateSet ==
  AnalysisRuns
    => /\ has_music /\ ~paused
       /\ CurrentTrack(current_track, Len(tracks)) # 0
       /\ sample_rate > 0
       /\ sample_rate
            = tracks[CurrentTrack(current_track, Len(tracks))].sampleRate

\* The analysis runs on the second of two tracks of different rates.
C13_Witness ==
  /\ cpc = "uvAnalyze" /\ Len(tracks) = 2 /\ current_track = 1
  /\ tracks[1].sampleRate # tracks[2].sampleRate

\* C14: for every band and the sample rate of every valid stream, the
\* bucketizer's bin range has k1 > k0 and its part below N / 2, the part
\* band_max is taken over, holds at least one bin.
C14_BandsNonEmpty ==
  cpc = "uvAnalyze"
    => \A i \in Bands :
         /\ BandK1(sample_rate, i) > BandK0(sample_rate, i)
         /\ BandK0(sample_rate, i) < N \div 2

\* The spectrum, the divisor and the normalized band values the analysis of
\* this frame computes from tmp.
FrameSpectrum == compute_fft(tmp, 0, 1, spectrum, 0, N)
FrameMaxAmp == MaxAmp(FrameSpectrum, 0, max_amp_floor)
FrameNormalized(i) ==
  DivFx(BandMax(FrameSpectrum, BandK0(sample_rate, i), BandK1(sample_rate, i),
                0),
        FrameMaxAmp)

\* C15: the divisor max_amp of the normalization is at least its floor
\* (1e-6f) and so never zero, also when every sample copied from the ring
\* buffer is zero; and with that silent input every band's normalized value
\* and target are 0.
C15_MaxAmpFloor ==
  cpc = "uvAnalyze"
    => /\ FrameMaxAmp >= max_amp_floor
       /\ FrameMaxAmp > 0
       /\ snap = ZeroSamples
            => \A i \in Bands :
                 /\ FrameNormalized(i) = 0
                 /\ \A ol \in {0, overall_level, FX} :
                      TargetOf(FrameNormalized(i), i, ol) = 0

\* The analysis is about to run on a silent snapshot, in a frame after one
\* that was not silent.
C15_Witness ==
  /\ cpc = "uvAnalyze" /\ snap = ZeroSamples /\ tmp = ZeroSamples
  /\ resetSerial > 0 /\ frame = MaxFrames

\* C16: a programming error fails fast and never silently produces output:
\* a call of the transform with a size that is not a power of two (or is 0),
\* and a run of the bucketizer with sample rate 0, end without returning a
\* spectrum or band values (in an assertion failure, taken here to include
\* any other crash).
C16_FailFast ==
  /\ (tfCall.status \notin {"idle", "called"} /\ ~IsPow2(tfCall.n))
       => tfCall.status \in {"aborted", "overflow"}
  /\ (bkCall.status \notin {"idle", "called"} /\ bkCall.rate = 0)
       => bkCall.status = "aborted"

\* The first n entries of x are an impulse: non-zero at index 0, zero after.
IsImpulse(x, n) == x[0] # 0 /\ \A i \in 1 .. n - 1 : x[i] = 0

\* C17: for every power-of-two size n, compute_fft with stride 1 applied to
\* an impulse writes all n output bins, and get_amplitude is the same for
\* every bin (the height of the impulse); entries past n are left alone.
C17_ImpulseFlat ==
  (/\ tfCall.status = "returned" /\ tfCall.fn = "compute_fft"
   /\ IsPow2(tfCall.n) /\ IsImpulse(tfCall.in, tfCall.n))
    => /\ \A i \in 0 .. tfCall.n - 1 :
            /\ tfCall.out[i] = <<tfCall.in[0], 0>>
            /\ get_amplitude(tfCall.out[i]) = get_amplitude(tfCall.out[0])
            /\ get_amplitude(tfCall.out[i]) = Abs(tfCall.in[0])
       /\ \A i \in tfCall.n .. TfMax - 1 : tfCall.out[i] \in TfGarbage

\* The transform of the largest size returned on an impulse, into an array
\* that held something else before.
C17_Witness ==
  /\ tfCall.status = "returned" /\ tfCall.fn = "compute_fft"
  /\ tfCall.n = TfMax /\ IsPow2(TfMax) /\ tfCall.in = TfImpulse(FX)
  /\ \A i \in TfIndex : tfCall.out[i] \notin TfGarbage

\* C18: the amplitude of z is the larger of |Re z| and |Im z|, the infinity
\* norm and not the Euclidean magnitude: 0 for 0 + 0i, 4 for 3 + 4i, and
\* never negative; amp of music.c computes the same.
C18_InfinityNorm ==
  ampCall.status = "returned"
    => LET re == ampCall.z[1]
           im == ampCall.z[2]
           r == ampCall.plug
       IN /\ r \in {re, -re, im, -im}
          /\ r >= re /\ r >= -re /\ r >= im /\ r >= -im
          /\ r >= 0
          /\ ampCall.z = <<0, 0>> => r = 0
          /\ ampCall.z = <<3 * FX, 4 * FX>> => r = 4 * FX /\ r # 5 * FX
          /\ ampCall.music = r

\* The amplitude of 3 + 4i was computed.
C18_Witness ==
  /\ ampCall.status = "returned" /\ ampCall.z = <<3 * FX, 4 * FX>>
  /\ ampCall.plug = 4 * FX

\* C19: switch_track(index) on a playlist of count >= 1 tracks leaves
\* current_track in 0 .. count - 1: count - 1 for an index below 0, 0 for an
\* index of count or more, the index itself otherwise; so next from the last
\* track goes to the first and previous from the first goes to the last.  On
\* the empty playlist it returns at once and changes nothing.
C19_SwitchWraps ==
  [][/\ cpc = "stSelect"
          => /\ Len(tracks) >= 1 /\ tracks' = tracks
             /\ current_track' \in 0 .. Len(tracks) - 1
             /\ stIndex < 0 => current_track' = Len(tracks) - 1
             /\ stIndex >= Len(tracks) => current_track' = 0
             /\ (0 <= stIndex /\ stIndex < Len(tracks))
                  => current_track' = stIndex
             /\ (stIndex = current_track + 1
                 /\ current_track = Len(tracks) - 1) => current_track' = 0
             /\ (stIndex = current_track - 1 /\ current_track = 0)
                  => current_track' = Len(tracks) - 1
     /\ cpc \in {"stDetach", "stSamples", "stBuffers", "stCursor", "stAttach"}
          => current_track' = current_track /\ tracks' = tracks
     /\ lastOp' = "switch_track"
          => current_track' \in 0 .. Len(tracks') - 1
     /\ (cpc = "stDetach" /\ Len(tracks) = 0)
          => /\ cpc' = cret
             /\ UNCHANGED <<listVars, ringVars, anaVars, attached>>]_vars

\* Previous from the first of MaxTracks tracks has just selected the last.
C19_Witness ==
  /\ cpc = "stSamples" /\ Len(tracks) = MaxTracks /\ MaxTracks > 1
  /\ stIndex = -1 /\ current_track = MaxTracks - 1

\* C20: next_track_in_queue calls switch_track only when music is loaded,
\* playback is not paused, the playlist has more than one track and the
\* current track is not the last, and then with current_track + 1; so it
\* never wraps from the last track to the first and never changes the track
\* while paused.  (Whether the track is within 0.1 s of its end is an input
\* of the step.)
C20_AutoAdvance ==
  [][/\ (cpc = "nextq" /\ cpc' # "visualizer")
          => /\ has_music /\ ~paused /\ Len(tracks) > 1
             /\ current_track # Len(tracks) - 1
             /\ cpc' = "stDetach" /\ cret' = "visualizer"
             /\ stIndex' = current_track + 1
             /\ stIndex' \in 1 .. Len(tracks) - 1
     /\ cpc = "nextq" => UNCHANGED <<listVars, ringVars, anaVars, attached>>
     /\ (cpc = "stSelect" /\ cret = "visualizer")
          => /\ ~paused
             /\ current_track' = current_track + 1
             /\ current_track' <= Len(tracks) - 1]_vars

\* The automatic advance has just selected the last track.
C20_Witness ==
  /\ cpc = "stSamples" /\ cret = "visualizer"
  /\ current_track = stIndex /\ stIndex = Len(tracks) - 1 /\ stIndex > 0

\* C21: adding tracks while music is loaded (file drop, internal browser)
\* only appends to the playlist: current_track, paused, the attached
\* processor, the ring buffer, bars, smear and the persistent scalars keep
\* their values and switch_track is not called; playback of track 0 is
\* started by an add only when no music was loaded before it.  (A step of
\* the frame thread is one that moves cpc; the audio thread may write the
\* ring buffer in steps of its own in between.)
C21_AddOnlyAppends ==
  [][/\ (cpc \in {"drop", "browser"} /\ has_music /\ cpc' # cpc)
          => /\ Len(tracks') >= Len(tracks)
             /\ SubSeq(tracks', 1, Len(tracks)) = tracks
             /\ UNCHANGED <<current_track, has_music, paused, sample_rate,
                            attached, ringVars, anaVars>>
             /\ cpc' \notin {"dropReset", "stDetach"}
             /\ UNCHANGED callVars
     /\ (cpc = "drop" /\ cpc' = "dropReset") => ~has_music
     /\ (cpc = "dropReset" /\ cpc' # cpc)
          => cpc' = "stDetach" /\ stIndex' = 0
     /\ (cpc \in {"browser", "tiny"} /\ cpc' = "stDetach")
          => /\ ~has_music /\ stIndex' = 0
             /\ Len(tracks') = Len(tracks) + 1]_vars

\* A file was dropped in the first frame while the track loaded through the
\* dialog was playing and the ring buffer held samples.
C21_Witness ==
  /\ cpc = "nextq" /\ lastOp = "-" /\ frame = 1
  /\ has_music /\ Len(tracks) = 2 /\ current_track = 0
  /\ samples # ZeroSamples /\ sample_write > 0

\* C22: a failed load leaves the playlist and the playback state as they
\* were: add_track_from_path returns false and appends nothing for a NULL
\* path (error untouched) and for an invalid stream (error set); has_music
\* and current_track keep their values and switch_track is not called.  A
\* successful load appends exactly that one track and clears error.  A file
\* drop appends valid streams only and never touches error.
C22_FailedLoadNoEffect ==
  [][/\ cpc \in {"tiny", "browser"}
          => \A isNull \in BOOLEAN,
                music \in {InvalidStream} \cup AllStreams :
               LET r == add_track_from_path(isNull, music)
               IN /\ isNull => ~r.ok /\ r.tracks = tracks /\ r.error = error
                  /\ (~isNull /\ ~IsMusicValid(music))
                       => ~r.ok /\ r.tracks = tracks /\ r.error
                  /\ (~isNull /\ IsMusicValid(music))
                       => /\ r.ok /\ ~r.error
                          /\ Len(r.tracks) = Len(tracks) + 1
                          /\ SubSeq(r.tracks, 1, Len(tracks)) = tracks
                          /\ r.tracks[Len(tracks) + 1] = music
     /\ (cpc \in {"tiny", "browser"} /\ cpc' # cpc)
          => IF tracks' = tracks
             THEN /\ UNCHANGED <<has_music, current_track, paused,
                                 sample_rate, attached, callVars>>
                  /\ cpc' # "stDetach"
                  /\ error' = error \/ error'
             ELSE /\ Len(tracks') = Len(tracks) + 1
                  /\ SubSeq(tracks', 1, Len(tracks)) = tracks
                  /\ IsMusicValid(tracks'[Len(tracks')])
                  /\ ~error'
     /\ (cpc = "drop" /\ cpc' # cpc)
          => /\ error' = error
             /\ UNCHANGED <<has_music, current_track>>
             /\ SubSeq(tracks', 1, Len(tracks)) = tracks
             /\ \A i \in 1 .. Len(tracks') : IsMusicValid(tracks'[i])
             /\ tracks' = tracks => cpc' = "nextq"]_vars

\* The dialog's file was no music: the error flag is set, the playlist is
\* still empty and nothing plays.
C22_Witness ==
  /\ cpc = "input" /\ frame = 1 /\ error
  /\ tracks = <<>> /\ ~has_music /\ current_track = 0

\* C23: between frames (after every plug_update) has_music is true exactly
\* when the playlist is not empty; and at every point where has_music is
\* true current_track is a valid index, 0 <= current_track < tracks.count,
\* so current_track() is not NULL where the code dereferences it under
\* has_music.
C23_MusicIffTracks ==
  /\ cpc = "idle" => (has_music <=> Len(tracks) > 0)
  /\ has_music
       => /\ 0 <= current_track /\ current_track < Len(tracks)
          /\ CurrentTrack(current_track, Len(tracks)) = current_track + 1
  /\ Len(tracks) = 0 => ~has_music \/ cpc = "stDetach"

\* The last of MaxTracks tracks is current after the last frame.
C23_Witness ==
  /\ cpc = "idle" /\ frame = MaxFrames /\ has_music
  /\ Len(tracks) = MaxTracks /\ current_track = MaxTracks - 1
  /\ MaxTracks > 1

\* The streams process_audio is attached to, and how often in all.
AttachedTo == {t \in TrackIds : attached[t] > 0}

\* C24: whatever tracks were added, whatever switches were made (keys, queue
\* click, automatic advance) and whatever reload pairs ran, process_audio is
\* attached to at most one stream, once; and between frames, outside the
\* window from plug_pre_reload to plug_post_reload, it is attached to the
\* current track's stream and no other if has_music is true, and to none if
\* it is false.
C24_OneProcessor ==
  /\ Cardinality(AttachedTo) <= 1
  /\ \A t \in TrackIds : attached[t] <= 1
  /\ (cpc = "idle" /\ ~reloading)
       => AttachedTo = IF has_music
                       THEN {CurrentTrack(current_track, Len(tracks))}
                       ELSE {}

\* After the last frame the processor sits on the second track, the first
\* having been played before it.
C24_Witness ==
  /\ cpc = "idle" /\ ~reloading /\ frame = MaxFrames /\ has_music
  /\ current_track = 1 /\ attached[2] = 1 /\ attached[1] = 0

\* What update_visualizer computes and keeps from frame to frame.
Analysed == <<bars, bass_history, overall_level, spectrum, window,
              window_ready>>

\* C25: while playback is paused or no music is loaded, update_visualizer
\* changes nothing; bars, bass_history, overall_level, spectrum, window and
\* window_ready change only in a step of update_visualizer taken with
\* has_music true and paused false, or in the reset of a track change.
C25_PausedFrozen ==
  [][/\ (cpc = "visualizer" /\ ~(has_music /\ ~paused) /\ cpc' # cpc)
          => /\ cpc' = "queue"
             /\ UNCHANGED <<listVars, ringVars, anaVars, attached, uvLocals>>
     /\ Analysed' # Analysed
          => \/ cpc \in {"visualizer", "uvAnalyze"} /\ has_music /\ ~paused
             \/ cpc \in {"stSamples", "stBuffers", "stCursor"}
     /\ AnalysisRuns => has_music /\ ~paused]_vars

\* update_visualizer was skipped in a paused frame, and the bars the frame
\* before had raised are still up.
C25_Witness ==
  /\ cpc = "queue" /\ paused /\ has_music /\ frame = MaxFrames
  /\ bars # ZeroBands /\ window_ready

====
